---------------------------- MODULE Spec2Model ----------------------------
(***************************************************************************)
(* Model of src/PY/dsrtos_dynamic_fixer.py: the DSRTOSCompilationFixer     *)
(* convergence loop (run_dynamic_fix), its textual diagnostic classifier   *)
(* and its six corrective-action synthesizers.                             *)
(*                                                                         *)
(* Text is modelled as sequences of tokens.  A name (symbol, constant,     *)
(* macro, path, list label) is a sequence of string tokens, and Python's   *)
(* `a in b` on strings is the contiguous-subsequence test Within(a, b).    *)
(* A file is a sequence of lines, a line a record [t, x] with its kind t   *)
(* and the name x it is about.  The build output is a set of diagnostic    *)
(* lines [phrase, quoted, subj].                                           *)
(*                                                                         *)
(* Every file operation of the program is taken to succeed, and a name     *)
(* holds no character that re.sub would read as an escape in a replacement *)
(* template: an OSError or re.error raised out of run_dynamic_fix is not   *)
(* modelled.                                                               *)
(***************************************************************************)
EXTENDS Naturals, Sequences, FiniteSets, TLC

(***************************************************************************)
(* Bounds of the model.                                                    *)
(***************************************************************************)
\* number of diagnostic lines in the output of one build
MaxDiag == 2
\* number of run_dynamic_fix calls made on the one fixer object
MaxCalls == 2
\* number of successive calls of one synthesizer (one per round)
MaxSteps == 2
\* number of subjects (symbols, constants) handed to a synthesizer at once
MaxSubjects == 2

(***************************************************************************)
(* Program constants.                                                      *)
(***************************************************************************)
\* for iteration in range(1, 8)
MaxIterations == 7

(***************************************************************************)
(* Strings as token sequences.                                             *)
(***************************************************************************)
\* Python `a in b` for strings: a occurs in b as a contiguous run
Within(a, b) ==
    \E i \in 0..(Len(b) - Len(a)) : \A j \in 1..Len(a) : b[i + j] = a[j]

\* Python b.startswith(a)
StartsWith(b, a) ==
    Len(a) <= Len(b) /\ \A j \in 1..Len(a) : b[j] = a[j]

\* the sequences listing every element of the finite set S exactly once
Orders(S) ==
    { f \in [1..Cardinality(S) -> S] : \A i, j \in 1..Cardinality(S) : f[i] = f[j] => i = j }


\* Python b.endswith(a): what a regular expression tests with a name followed
\* by the text that must come right after it
EndsWith(b, a) ==
    Len(a) <= Len(b) /\ \A j \in 1..Len(a) : b[Len(b) - Len(a) + j] = a[j]

(***************************************************************************)
(* The manifest (Makefile).  A line is [t, x, op, cont]:                   *)
(*   t = "list": a list declaration  `x op` , cont: the backslash follows  *)
(*               the operator directly (`C_SOURCES = \`), otherwise        *)
(*               sources follow on the same line                           *)
(*   t = "src" : a continuation line holding the source path x             *)
(*   t = "ref" : a use of list x, `$(x)`                                   *)
(***************************************************************************)
PHASE1_C_SOURCES == <<"PHASE1_", "C_SOURCES">>
PHASE2_C_SOURCES == <<"PHASE2_", "C_SOURCES">>
C_SOURCES == <<"C_SOURCES">>

ListLine(label, op, cont) == [t |-> "list", x |-> label, op |-> op, cont |-> cont]
SrcLine(path) == [t |-> "src", x |-> path, op |-> "", cont |-> TRUE]
RefLine(label) == [t |-> "ref", x |-> label, op |-> "", cont |-> FALSE]

\* `text in content` for the manifest's content
InMakefile(text, mk) == \E i \in 1..Len(mk) : Within(text, mk[i].x)

\* r'(LABEL\s*=\s*\\)' matches in this line: the label's text ends right
\* before the `=`, and the backslash follows it
MatchesListHead(line, label) ==
    line.t = "list" /\ EndsWith(line.x, label) /\ line.op = "=" /\ line.cont

\* re.sub(r'(LABEL\s*=\s*\\)', rf'\1\n    {source_path} \\', content):
\* a source line goes in under every match
RECURSIVE SubListHead(_, _, _)
SubListHead(mk, label, path) ==
    IF mk = << >> THEN << >>
    ELSE IF MatchesListHead(Head(mk), label)
         THEN <<Head(mk), SrcLine(path)>> \o SubListHead(Tail(mk), label, path)
         ELSE <<Head(mk)>> \o SubListHead(Tail(mk), label, path)

\* source_path = f"src/{source_name}"
SourcePath(source_name) == <<"src/">> \o source_name

\* add_source_to_makefile(source_name): the manifest afterwards
AddSourceToMakefile(mk, source_name) ==
    LET source_path == SourcePath(source_name) IN
    IF InMakefile(source_path, mk) THEN mk
    ELSE IF InMakefile(PHASE1_C_SOURCES, mk)
         THEN SubListHead(mk, PHASE1_C_SOURCES, source_path)
         ELSE SubListHead(mk, C_SOURCES, source_path)

\* the number of source lines of the manifest that name path
RefCount(mk, path) == Cardinality({ i \in 1..Len(mk) : mk[i].t = "src" /\ mk[i].x = path })

(***************************************************************************)
(* Source files.  A file is the sequence of its lines, a line [t, x, b]:   *)
(*   "cmt"     a comment with the text x                                   *)
(*   "inc"     #include of header x                                        *)
(*   "decl"    a prototype           T x(void);                            *)
(*   "fwd"     the block fix_forward_declaration_errors inserts for x      *)
(*   "call"    a statement           x(...);                               *)
(*   "use"     a call site without a semicolon on its line  if (x(...)) {  *)
(*   "def"     a function definition block  T x(...) { ... }   (b: body)   *)
(*   "stub"    a one-line definition written by create_comprehensive_stubs *)
(*   "var"     a variable definition T x = v;                              *)
(*   "ref"     a statement that names x without calling it                 *)
(*   "define"  #define x v                                                 *)
(*   "blank"   an empty line                                               *)
(*   "removed" the marker /* REMOVED: x implemented elsewhere */           *)
(* The file system is a function from the paths that exist to contents.    *)
(***************************************************************************)
Line(t, x) == [t |-> t, x |-> x, b |-> ""]
BodyLine(t, x, b) == [t |-> t, x |-> x, b |-> b]

AutoHeader == <<"dsrtos_auto_constants.h">>
StubsName == <<"dsrtos_", "stubs", ".c">>

\* the lines in which the name is directly followed by an opening parenthesis
CallShaped == {"decl", "fwd", "call", "use", "def", "stub"}

\* f"{symbol}(" occurs in the line
HasCallText(line, symbol) == line.t \in CallShaped /\ EndsWith(line.x, symbol)

\* symbol in content and f"{symbol}(" in content
HasCallSite(content, symbol) ==
    /\ \E i \in 1..Len(content) : Within(symbol, content[i].x)
    /\ \E i \in 1..Len(content) : HasCallText(content[i], symbol)

\* re.search(rf"^.*{symbol}\s*\(.*\)\s*;", content, re.MULTILINE): a line in
\* which a closing parenthesis is followed by a semicolon after `symbol(`;
\* the trap stub `void x(void) { while(1); }` is such a line too
HasDeclarationLine(content, symbol) ==
    \E i \in 1..Len(content) :
        /\ EndsWith(content[i].x, symbol)
        /\ \/ content[i].t \in {"decl", "fwd", "call"}
           \/ content[i].t = "stub" /\ content[i].b = "trap"

\* content.rfind('#include'), as a line number (0: none)
LastInclude(content) ==
    LET S == { i \in 1..Len(content) : content[i].t = "inc" } IN
    IF S = {} THEN 0 ELSE CHOOSE i \in S : \A j \in S : j <= i

\* content[:include_end] + declaration + content[include_end:]
InsertAfter(content, n, line) ==
    SubSeq(content, 1, n) \o <<line>> \o SubSeq(content, n + 1, Len(content))

\* Path("src").rglob("*.c")
CFiles(files) ==
    { p \in DOMAIN files : Len(p) >= 2 /\ p[1] = "src/" /\ p[Len(p)] = ".c" }

\* the path components that are directories
DirTokens == {"src/", "phase1/", "phase2/", "common/", "build/"}

\* Path(missing_file).name
RECURSIVE PathName(_)
PathName(path) ==
    IF \E i \in 1..Len(path) : path[i] \in DirTokens THEN PathName(Tail(path)) ELSE path

\* str.replace(old, new) for one-token old and new
ReplaceToken(name, old, new) ==
    [i \in 1..Len(name) |-> IF name[i] = old THEN new ELSE name[i]]

\* str.replace(old, '')
RECURSIVE RemoveToken(_, _)
RemoveToken(name, old) ==
    IF name = << >> THEN << >>
    ELSE IF Head(name) = old THEN RemoveToken(Tail(name), old)
         ELSE <<Head(name)>> \o RemoveToken(Tail(name), old)

(***************************************************************************)
(* missing-build-rule: file and manifest synthesis.                        *)
(***************************************************************************)
StdHeaders == <<Line("inc", <<"stdint.h">>), Line("inc", <<"stdbool.h">>)>>

\* generate_stubs_file(filename): the "stub bundle" template
GenerateStubsFile(filename) ==
    <<Line("cmt", filename)>> \o StdHeaders \o
    << Line("cmt", <<"MISRA">>),
       BodyLine("def", <<"dsrtos_", "error_is_critical">>, "bool"),
       Line("cmt", <<"DSRTOS_", "ERROR_", "FATAL">>),
       Line("cmt", <<"DSRTOS_", "ERROR_", "STACK_OVERFLOW">>),
       BodyLine("def", <<"dsrtos_", "error_requires_shutdown">>, "bool"),
       Line("cmt", <<"DSRTOS_", "ERROR_", "FATAL">>),
       BodyLine("def", <<"dsrtos_", "memory_init">>, "zero"),
       BodyLine("def", <<"dsrtos_", "memory_get_stats">>, "stats"),
       BodyLine("def", <<"__stack_chk_fail">>, "trap"),
       Line("var", <<"__stack_chk_guard">>) >>

\* generate_missing_implementations(filename)
GenerateMissingImplementations(filename) ==
    <<Line("cmt", filename)>> \o StdHeaders \o
    << Line("cmt", <<"Auto-generated implementations">>),
       BodyLine("def", <<"placeholder_function">>, "zero") >>

\* generate_generic_source(filename)
GenerateGenericSource(filename) ==
    LET base_name == RemoveToken(RemoveToken(filename, ".c"), "dsrtos_") IN
    <<Line("cmt", filename)>> \o StdHeaders \o
    << Line("cmt", <<"Auto-generated placeholder implementation">>),
       BodyLine("def", base_name \o <<"_placeholder">>, "void") >>

\* create_missing_source_file(filename): the file system afterwards
CreateMissingSourceFile(files, filename) ==
    LET content ==
            IF Within(<<"stubs">>, filename) THEN GenerateStubsFile(filename)
            ELSE IF Within(<<"missing">>, filename)
                 THEN GenerateMissingImplementations(filename)
                 ELSE GenerateGenericSource(filename)
    IN  (SourcePath(filename) :> content) @@ files

\* possible_paths of fix_makefile_missing_rule
PossiblePaths(source_name) ==
    { <<"src/">> \o source_name, <<"src/", "phase1/">> \o source_name,
      <<"src/", "phase2/">> \o source_name, <<"src/", "common/">> \o source_name }

\* the body of the loop of fix_makefile_missing_rule for one missing_file:
\* the project [files, mk, header] afterwards
FixOneMissingRule(ps, missing_file) ==
    LET source_name == ReplaceToken(PathName(missing_file), ".o", ".c")
        source_exists == \E path \in PossiblePaths(source_name) : path \in DOMAIN ps.files
    IN  [ps EXCEPT !.files = IF source_exists THEN ps.files
                             ELSE CreateMissingSourceFile(ps.files, source_name),
                   !.mk = AddSourceToMakefile(ps.mk, source_name)]

\* fix_makefile_missing_rule(output), missing_files being the targets found
\* by re.findall, in the order of the output's text
RECURSIVE FixMakefileMissingRule(_, _)
FixMakefileMissingRule(ps, missing_files) ==
    IF missing_files = << >> THEN ps
    ELSE FixMakefileMissingRule(FixOneMissingRule(ps, Head(missing_files)),
                                Tail(missing_files))

(***************************************************************************)
(* undeclared-symbol: forward-declaration insertion.                       *)
(***************************************************************************)
\* whether the file takes the forward declaration of symbol: it has a call
\* site, no declaration line, and `include_end > 0`, the last #include not
\* being at the file's first character
TakesForwardDeclaration(content, symbol) ==
    /\ HasCallSite(content, symbol)
    /\ ~HasDeclarationLine(content, symbol)
    /\ LastInclude(content) > 1

\* the loop over Path("src").rglob("*.c") for one symbol, the files coming
\* in the order c_files: the first file that takes the declaration gets it
RECURSIVE ForwardDeclareSymbol(_, _, _)
ForwardDeclareSymbol(files, symbol, c_files) ==
    IF c_files = << >> THEN files
    ELSE LET c_file == Head(c_files)
             content == files[c_file]
         IN  IF TakesForwardDeclaration(content, symbol)
             THEN [files EXCEPT ![c_file] =
                      InsertAfter(content, LastInclude(content), Line("fwd", symbol))]
             ELSE ForwardDeclareSymbol(files, symbol, Tail(c_files))

\* `for symbol in set(matches)` of one pattern, the set coming in the order
\* symbols
RECURSIVE ForwardDeclareAll(_, _, _)
ForwardDeclareAll(files, symbols, c_files) ==
    IF symbols = << >> THEN files
    ELSE ForwardDeclareAll(ForwardDeclareSymbol(files, Head(symbols), c_files),
                           Tail(symbols), c_files)

\* fix_forward_declaration_errors(output): the matches of the first pattern
\* (undeclared here), then those of the second (first use in this function)
FixForwardDeclarationErrors(files, here, first, c_files) ==
    ForwardDeclareAll(ForwardDeclareAll(files, here, c_files), first, c_files)

(***************************************************************************)
(* multiple-definition: duplicate removal.                                 *)
(***************************************************************************)
MainC == <<"main", ".c">>

\* re.search(rf"^[^/\n]*{symbol}\s*\(", content, re.MULTILINE)
DefinesSymbol(content, symbol) ==
    \E i \in 1..Len(content) : HasCallText(content[i], symbol)

\* re.sub of the definition block `symbol(...) { ... }` by the marker
RemoveDefinition(content, symbol) ==
    [i \in 1..Len(content) |->
        IF content[i].t = "def" /\ EndsWith(content[i].x, symbol)
        THEN Line("removed", symbol) ELSE content[i]]

\* the body of `for symbol in set(multiple_defs)` for one symbol
RemoveFromMain(files, symbol) ==
    LET files_with_symbol == { f \in CFiles(files) : DefinesSymbol(files[f], symbol) } IN
    [f \in DOMAIN files |->
        IF f \in files_with_symbol /\ Within(MainC, f)
        THEN RemoveDefinition(files[f], symbol) ELSE files[f]]

\* fix_multiple_definitions(output), the set of symbols coming in this order
RECURSIVE FixMultipleDefinitions(_, _)
FixMultipleDefinitions(files, symbols) ==
    IF symbols = << >> THEN files
    ELSE FixMultipleDefinitions(RemoveFromMain(files, Head(symbols)), Tail(symbols))

(***************************************************************************)
(* undefined-reference: stub synthesis.                                    *)
(***************************************************************************)
\* the if/elif chain of create_comprehensive_stubs: the line written
StubLine(symbol) ==
    IF Within(<<"error_is_critical">>, symbol) THEN BodyLine("stub", symbol, "false")
    ELSE IF Within(<<"error_requires_shutdown">>, symbol) THEN BodyLine("stub", symbol, "false")
    ELSE IF Within(<<"memory_init">>, symbol) THEN BodyLine("stub", symbol, "zero")
    ELSE IF Within(<<"memory_get_stats">>, symbol) THEN BodyLine("stub", symbol, "stats")
    ELSE IF Within(<<"__stack_chk_fail">>, symbol) THEN BodyLine("stub", symbol, "trap")
    ELSE IF Within(<<"__stack_chk_guard">>, symbol) THEN Line("var", symbol)
    ELSE BodyLine("stub", symbol, "zero")

\* create_comprehensive_stubs with the stub file opened for appending: the
\* stubs of earlier calls stay in the file
CreateComprehensiveStubs_Append(ps, symbols) ==
    LET path == SourcePath(StubsName)
        old == IF path \in DOMAIN ps.files THEN ps.files[path]
               ELSE <<Line("cmt", StubsName)>> \o StdHeaders
        content == old \o [i \in 1..Len(symbols) |-> StubLine(symbols[i])]
    IN  [ps EXCEPT !.files = (path :> content) @@ ps.files,
                   !.mk = AddSourceToMakefile(ps.mk, StubsName)]

\* create_comprehensive_stubs(symbols), the set coming in this order: the
\* stub file is written anew, then registered in the manifest
CreateComprehensiveStubs(ps, symbols) ==
    LET content == <<Line("cmt", StubsName)>> \o StdHeaders \o
                   [i \in 1..Len(symbols) |-> StubLine(symbols[i])]
    IN  [ps EXCEPT !.files = (SourcePath(StubsName) :> content) @@ ps.files,
                   !.mk = AddSourceToMakefile(ps.mk, StubsName)]

(***************************************************************************)
(* undeclared-constant: constants synthesis.                               *)
(***************************************************************************)
\* the if/elif chain of create_constants_file: the value defined
ConstantValue(const) ==
    IF Within(<<"HEAP_SIZE">>, const) THEN "32768U"
    ELSE IF Within(<<"ERROR_", "HARDWARE">>, const) THEN "0x1000000BU"
    ELSE IF Within(<<"ERROR_", "FATAL">>, const) THEN "0x1000000AU"
    ELSE IF Within(<<"ERROR_">>, const) THEN "0x10000001U"
    ELSE "0U"

\* `text in content` for a source file
InFile(text, content) == \E i \in 1..Len(content) : Within(text, content[i].x)

\* the include loop of create_constants_file for one file
AddConstantsInclude(content, constants) ==
    IF (\E const \in constants : InFile(const, content)) /\ ~InFile(AutoHeader, content)
    THEN <<Line("inc", AutoHeader)>> \o content
    ELSE content

\* create_constants_file(constants): the header is written anew, and the
\* include goes into the source files
CreateConstantsFile(ps, constants) ==
    [ps EXCEPT !.header = [c \in constants |-> ConstantValue(c)],
               !.files = [f \in DOMAIN ps.files |->
                            IF f \in CFiles(ps.files)
                            THEN AddConstantsInclude(ps.files[f], constants)
                            ELSE ps.files[f]]]

(***************************************************************************)
(* macro-redefinition: duplicate-macro removal.                            *)
(***************************************************************************)
\* remove_duplicate_macros(macros): in every source file,
\* re.sub(rf"^#define\s+{macro}.*$", '', content, flags=re.MULTILINE)
RemoveDuplicateMacros(files, macros) ==
    [f \in DOMAIN files |->
        IF f \in CFiles(files)
        THEN LET S == { i \in 1..Len(files[f]) :
                          files[f][i].t = "define" /\
                          \E m \in macros : StartsWith(files[f][i].x, m) }
             IN  [i \in 1..Len(files[f]) |->
                     IF i \in S THEN Line("blank", << >>) ELSE files[f][i]]
        ELSE files[f]]

(***************************************************************************)
(* The build output and the diagnostic classifier.  A diagnostic line is   *)
(* [phrase, quoted, subj]: the phrase of the message, whether its subject  *)
(* is quoted the way the extraction pattern wants it (a truncated line, or *)
(* one quoting with other characters, is not), and the subject.            *)
(***************************************************************************)
NoRule == "No rule to make target"
UndeclaredHere == "undeclared here (not in a function)"
UndeclaredFirstUse == "undeclared (first use in this function)"
MultipleDefinition == "multiple definition"
UndefinedReference == "undefined reference to"
Redefined == "redefined"

Diag(phrase, subj) == [phrase |-> phrase, quoted |-> TRUE, subj |-> subj]
Malformed(phrase) == [phrase |-> phrase, quoted |-> FALSE, subj |-> << >>]

\* re.findall(pattern, output) for a pattern made of a phrase and its quoted
\* subject
FindAll(output, phrases) ==
    { l.subj : l \in { d \in output : d.phrase \in phrases /\ d.quoted } }

\* `phrase in output`
Mentions(output, phrase) == \E l \in output : l.phrase = phrase

\* the tokens without a lower-case letter
UpperTokens == {"DSRTOS_", "HEAP_SIZE", "ERROR_", "FATAL", "HARDWARE", "TIMEOUT",
                "MAX_TASKS", "STACK_OVERFLOW", "_"}

\* id.startswith('DSRTOS_') and id.isupper()
IsConstantName(id) ==
    StartsWith(id, <<"DSRTOS_">>) /\ \A i \in 1..Len(id) : id[i] \in UpperTokens

\* re.findall(r"No rule to make target '([^']+)'", output)
MissingFiles(output) == FindAll(output, {NoRule})
\* re.findall(r"'([^']+)' undeclared here \(not in a function\)", output)
HereSymbols(output) == FindAll(output, {UndeclaredHere})
\* re.findall(r"'([^']+)' undeclared \(first use in this function\)", output)
FirstUseSymbols(output) == FindAll(output, {UndeclaredFirstUse})
\* re.findall(r"multiple definition of `([^']+)'", output)
MultipleDefs(output) == FindAll(output, {MultipleDefinition})
\* re.findall(r"undefined reference to `([^']+)'", output)
UndefinedRefs(output) == FindAll(output, {UndefinedReference})
\* [id for id in re.findall(r"'([^']+)' undeclared", output)
\*  if id.startswith('DSRTOS_') and id.isupper()]
Constants(output) ==
    { id \in FindAll(output, {UndeclaredHere, UndeclaredFirstUse}) : IsConstantName(id) }
\* re.findall(r'"([^"]+)" redefined', output)
RedefinedMacros(output) == FindAll(output, {Redefined})

\* the six kinds, in the order of the fixes of run_dynamic_fix
Kinds == {"missing_rule", "forward_decl", "multiple_def", "undefined_ref",
          "constants", "macros"}

\* the condition of the `if` that guards each fix
Triggered(output) ==
    [k \in Kinds |->
        CASE k = "missing_rule" -> Mentions(output, NoRule)
          [] k = "forward_decl" -> Mentions(output, UndeclaredHere)
          [] k = "multiple_def" -> Mentions(output, MultipleDefinition)
          [] k = "undefined_ref" -> UndefinedRefs(output) # {}
          [] k = "constants" -> Constants(output) # {}
          [] k = "macros" -> RedefinedMacros(output) # {}]

(***************************************************************************)
(* The state.                                                              *)
(***************************************************************************)
VARIABLES
    files,            \* the source tree: path -> content
    makefile,         \* the manifest
    header,           \* include/common/dsrtos_auto_constants.h: constant -> value
    backup_created,   \* self.backup_created
    backups,          \* the snapshots create_backup has taken
    phase,            \* IDLE, RUNNING(iteration), SUCCEEDED, STUCK, EXHAUSTED; or the
                      \* synthesizer under study: ADD_SOURCE, STUBS, CONSTANTS
    iteration,        \* the loop variable of run_dynamic_fix
    calls,            \* the calls of run_dynamic_fix made so far
    builds,           \* the get_compilation_output calls of the current call
    snapshots,        \* the snapshots taken by the current call
    exports,          \* the create_exports_structure calls of the current call
    success,          \* the success flag of the latest build
    tool,             \* how the tool invocation of the latest build went: "ran",
                      \* or the subprocess.run call that raised: "clean", "make"
    result,           \* what the current call returned: "none", "True", "False"
    output,           \* the output of the latest failed build
    fixes_applied,    \* fixes_applied of the latest round
    ran,              \* kind -> executions of its synthesizer in the latest round
    pristine,         \* no step of the current call has changed the project
    built,            \* the current call has ended, and the project is as its
                      \* last build compiled it
    exported,         \* the project create_exports_structure copied from
    steps,            \* the calls of the synthesizer under study made so far
    last,             \* the latest of them: [op, arg]
    prev              \* the call before the latest, and the project the latest
                      \* call began with: [last, ps]

vars == <<files, makefile, header, backup_created, backups, phase, iteration, calls,
          builds, snapshots, exports, success, tool, result, output, fixes_applied,
          ran, pristine, built, exported, steps, last, prev>>

\* the project state: source tree, generated header and manifest
Project == [files |-> files, mk |-> makefile, header |-> header]

(***************************************************************************)
(* The names the model's inputs are made of.                               *)
(***************************************************************************)
helper == <<"helper">>
task_init == <<"task_", "init">>
foo_unused == <<"foo_unused">>
dsrtos_memory_init == <<"dsrtos_", "memory_init">>
DSRTOS_HEAP_SIZE == <<"DSRTOS_", "HEAP_SIZE">>
DSRTOS_ERROR_FATAL == <<"DSRTOS_", "ERROR_", "FATAL">>
MAX_TASKS == <<"MAX_TASKS">>
ModObject == <<"build/", "mod", ".o">>
MainPath == <<"src/", "main", ".c">>
PhasePath == <<"src/", "phase1/", "a", ".c">>

\* a manifest with the primary and the fallback list
TypicalMakefile ==
    << ListLine(PHASE1_C_SOURCES, "=", TRUE), SrcLine(MainPath), SrcLine(PhasePath),
       ListLine(C_SOURCES, "=", TRUE), RefLine(PHASE1_C_SOURCES) >>

\* an entry-point file and a module that both define task_init; helper is
\* called in statements, and MAX_TASKS is defined in a header only
TypicalFiles ==
    (MainPath :> << Line("cmt", <<"main">>), Line("inc", <<"stdint.h">>),
                    Line("inc", <<"dsrtos.h">>),
                    BodyLine("def", task_init, "zero"), Line("call", helper),
                    Line("ref", DSRTOS_HEAP_SIZE) >>)
    @@ (PhasePath :> << Line("inc", <<"dsrtos.h">>), BodyLine("def", task_init, "zero"),
                        Line("call", helper) >>)

\* the lines of a build's output that hold one of the phrases the loop looks
\* for; every other line (another compiler error, the text of a failure to
\* start make) is passed over by every test of run_dynamic_fix, so an output
\* made of such lines only is the empty set
DiagLines ==
    { Diag(NoRule, ModObject),
      Diag(UndeclaredHere, DSRTOS_HEAP_SIZE), Diag(UndeclaredFirstUse, DSRTOS_HEAP_SIZE),
      Diag(MultipleDefinition, task_init), Malformed(MultipleDefinition),
      Diag(UndefinedReference, foo_unused),
      Diag(Redefined, MAX_TASKS) }

\* the outputs of a failed build
Outputs == { o \in SUBSET DiagLines : Cardinality(o) <= MaxDiag }

NoRun == [k \in Kinds |-> 0]
NoCall == [op |-> "none", arg |-> << >>]

(***************************************************************************)
(* create_backup and run_dynamic_fix.                                      *)
(***************************************************************************)
Terminal == {"SUCCEEDED", "STUCK", "EXHAUSTED"}

\* a variant of create_backup without the backup_created guard, to see that
\* the snapshot properties tell the two apart
CreateBackup_EveryCall(created, taken, ps) == Append(taken, ps)

\* create_backup(): the snapshots afterwards; src/, include/ and the Makefile
\* are copied once per fixer object
CreateBackup(created, taken, ps) == IF ~created THEN Append(taken, ps) ELSE taken

\* variants of the loop's decision, to see that the properties of the loop
\* tell them apart: a loop without the bound of range(1, 8), and a loop
\* without the break of line 488
AfterFailedRound_Unbounded(round, fixes) ==
    IF fixes = 0 THEN "STUCK" ELSE "RUNNING"

AfterFailedRound_NoBreak(round, fixes) ==
    IF round = MaxIterations THEN "EXHAUSTED" ELSE "RUNNING"

\* the end of a failed round, lines 486-491 and the bound of range(1, 8):
\* where the loop goes with this round's fixes_applied
AfterFailedRound(round, fixes) ==
    IF fixes = 0 THEN "STUCK"
    ELSE IF round = MaxIterations THEN "EXHAUSTED"
    ELSE "RUNNING"

\* variants of the export and of the returned value, to see that the
\* properties of a successful round tell them apart
CreateExportsStructure_IntoSrc(ps) ==
    [ps EXCEPT !.files = (<<"src/", "exports", ".c">> :> << >>) @@ ps.files]

ReturnValue_AlwaysFalse(ok) == "False"

\* create_exports_structure(): files are copied into exports/phase1 and
\* exports/phase2; src/, include/ and the Makefile are read only
CreateExportsStructure(ps) == ps

\* `return True` of line 432 and `return False` of line 491
ReturnValue(ok) == IF ok THEN "True" ELSE "False"

\* what the subprocess.run calls of get_compilation_output did: both ran and
\* make ended with returncode and printed text, or the call `raised` ("clean"
\* or "make") raised an exception whose str() is text
ToolRan(returncode, text) == [raised |-> "", returncode |-> returncode, text |-> text]
ToolRaised(at, text) == [raised |-> at, returncode |-> 0, text |-> text]

\* str(e) of an exception of subprocess.run (make missing, not executable,
\* I/O error) names the errno and the program; it holds none of the phrases
\* the loop looks for
ExceptionTexts == { {} }

\* a variant of the build driver without the try/except: what has raised
\* is not seen to have failed
GetCompilationOutput_NoExcept(run) == [success |-> run.returncode = 0, output |-> run.text]

\* get_compilation_output(): (success, output)
GetCompilationOutput(run) ==
    IF run.raised # ""
    THEN [success |-> FALSE, output |-> run.text]
    ELSE [success |-> run.returncode = 0, output |-> run.text]

\* a call of run_dynamic_fix up to its loop: create_backup, then round 1
Call ==
    /\ phase \in {"IDLE"} \cup Terminal
    /\ calls < MaxCalls
    /\ calls' = calls + 1
    /\ backups' = CreateBackup(backup_created, backups, Project)
    /\ snapshots' = Len(backups') - Len(backups)
    /\ backup_created' = TRUE
    /\ phase' = "RUNNING"
    /\ iteration' = 1
    /\ builds' = 0
    /\ exports' = 0
    /\ success' = FALSE
    /\ tool' = "none"
    /\ result' = "none"
    /\ output' = {}
    /\ fixes_applied' = 0
    /\ ran' = NoRun
    /\ pristine' = TRUE
    /\ built' = FALSE
    /\ exported' = << >>
    /\ UNCHANGED <<files, makefile, header, steps, last, prev>>

\* a variant of the round in which the build comes after the fixes
StateBuilt_AfterFixes(before, after) == after

\* the project that the build of a round compiles: get_compilation_output
\* of line 386 comes before whatever else the round does, so it is the
\* project as the round found it (before), not as the round leaves it (after)
StateBuilt(before, after) == before

\* the rest of a round whose build succeeded, lines 388-432: export,
\* summary, return True
SuccessfulRound(build) ==
    /\ phase = "RUNNING"
    /\ builds' = builds + 1
    /\ exported' = <<Project>>
    /\ exports' = exports + 1
    /\ success' = build.success
    /\ \E ps \in {CreateExportsStructure(Project)} :
            /\ files' = ps.files
            /\ makefile' = ps.mk
            /\ header' = ps.header
            /\ pristine' = (pristine /\ ps = Project)
            /\ built' = (StateBuilt(Project, ps) = ps)
    /\ phase' = "SUCCEEDED"
    /\ result' = ReturnValue(success')
    /\ UNCHANGED <<backup_created, backups, iteration, calls, snapshots, output,
                   fixes_applied, ran, steps, last, prev>>

\* the files whose place in the rglob order matters to Fix 2: a file that
\* takes no symbol's declaration is passed over wherever it comes, and an
\* insertion never makes a file take another symbol's declaration
Takers(fs, symbols) ==
    { f \in CFiles(fs) : \E s \in symbols : TakesForwardDeclaration(fs[f], s) }

\* Fix 1 .. Fix 6 of one round, lines 446-482.  Each gives the projects the
\* fix may leave, one for every order the run may happen to use: of the
\* missing targets in the output's text, of the iteration of a set(...),
\* and of rglob.
Fix1(ps, out) ==
    IF Mentions(out, NoRule)
    THEN { FixMakefileMissingRule(ps, missing) : missing \in Orders(MissingFiles(out)) }
    ELSE {ps}

Fix2(ps, out) ==
    IF Mentions(out, UndeclaredHere)
    THEN { [ps EXCEPT !.files = FixForwardDeclarationErrors(ps.files, o[1], o[2], o[3])] :
             o \in Orders(HereSymbols(out)) \X Orders(FirstUseSymbols(out)) \X
                   Orders(Takers(ps.files, HereSymbols(out) \cup FirstUseSymbols(out))) }
    ELSE {ps}

Fix3(ps, out) ==
    IF Mentions(out, MultipleDefinition)
    THEN { [ps EXCEPT !.files = FixMultipleDefinitions(ps.files, symbols)] :
             symbols \in Orders(MultipleDefs(out)) }
    ELSE {ps}

Fix4(ps, out) ==
    IF UndefinedRefs(out) # {}
    THEN { CreateComprehensiveStubs(ps, symbols) : symbols \in Orders(UndefinedRefs(out)) }
    ELSE {ps}

Fix5(ps, out) ==
    IF Constants(out) # {} THEN {CreateConstantsFile(ps, Constants(out))} ELSE {ps}

Fix6(ps, out) ==
    IF RedefinedMacros(out) # {}
    THEN {[ps EXCEPT !.files = RemoveDuplicateMacros(ps.files, RedefinedMacros(out))]}
    ELSE {ps}

\* the projects that the fixes of a round with the output out may leave
ApplyFixes(ps, out) ==
    LET S1 == Fix1(ps, out)
        S2 == UNION { Fix2(p, out) : p \in S1 }
        S3 == UNION { Fix3(p, out) : p \in S2 }
        S4 == UNION { Fix4(p, out) : p \in S3 }
        S5 == UNION { Fix5(p, out) : p \in S4 }
    IN  UNION { Fix6(p, out) : p \in S5 }

\* a variant of the counter that the fixes guarded by a substring test
\* (Fix 1 to Fix 3) do not increment
Count_ExtractedOnly(t) ==
    Cardinality({ k \in {"undefined_ref", "constants", "macros"} : t[k] })

\* fixes_applied at line 484: one for each `if` taken
Count(t) == Cardinality({ k \in Kinds : t[k] })

\* the rest of a round whose build did not succeed, lines 434-488:
\* analysis of build.output, the fixes, and the loop's decision
FailedRound(build) ==
    /\ phase = "RUNNING"
    /\ builds' = builds + 1
    /\ success' = build.success
    /\ output' = build.output
    /\ \E ps \in ApplyFixes(Project, build.output) :
            /\ files' = ps.files
            /\ makefile' = ps.mk
            /\ header' = ps.header
            /\ pristine' = (pristine /\ ps = Project)
            /\ built' = ( /\ AfterFailedRound(iteration, Count(Triggered(build.output)))
                                \in Terminal
                          /\ StateBuilt(Project, ps) = ps )
    /\ ran' = [k \in Kinds |-> IF Triggered(build.output)[k] THEN 1 ELSE 0]
    /\ fixes_applied' = Count(Triggered(build.output))
    /\ phase' = AfterFailedRound(iteration, fixes_applied')
    /\ IF phase' = "RUNNING"
       THEN /\ iteration' = iteration + 1
            /\ UNCHANGED result
       ELSE /\ result' = ReturnValue(success')
            /\ UNCHANGED iteration
    /\ UNCHANGED <<backup_created, backups, calls, snapshots, exports, exported,
                   steps, last, prev>>

\* one round of the loop, lines 383-488, the tool invocation going as run
RoundOf(run) ==
    LET build == GetCompilationOutput(run) IN
    /\ tool' = (IF run.raised = "" THEN "ran" ELSE run.raised)
    /\ IF build.success THEN SuccessfulRound(build) ELSE FailedRound(build)

\* a round whose build succeeds
RoundSucceeds ==
    /\ phase = "RUNNING"
    /\ RoundOf(ToolRan(0, {}))

\* a round whose build fails with the output out
RoundFails(out) ==
    /\ phase = "RUNNING"
    /\ RoundOf(ToolRan(2, out))

\* a round in which make could not be invoked: the call `at` raised
RoundToolFails(at) ==
    /\ phase = "RUNNING"
    /\ \E text \in ExceptionTexts : RoundOf(ToolRaised(at, text))

Init ==
    /\ files = TypicalFiles
    /\ makefile = TypicalMakefile
    /\ header = << >>
    /\ backup_created = FALSE
    /\ backups = << >>
    /\ phase = "IDLE"
    /\ iteration = 0
    /\ calls = 0
    /\ builds = 0
    /\ snapshots = 0
    /\ exports = 0
    /\ success = FALSE
    /\ tool = "none"
    /\ result = "none"
    /\ output = {}
    /\ fixes_applied = 0
    /\ ran = NoRun
    /\ pristine = TRUE
    /\ built = FALSE
    /\ exported = << >>
    /\ steps = 0
    /\ last = NoCall
    /\ prev = [last |-> NoCall, ps |-> Project]

Next ==
    \/ Call
    \/ RoundSucceeds
    \/ \E out \in Outputs : RoundFails(out)
    \/ \E at \in {"clean", "make"} : RoundToolFails(at)

Spec == Init /\ [][Next]_vars

(***************************************************************************)
(* The synthesizers on their own: one synthesizer is called up to MaxSteps *)
(* times, as in successive rounds, on a manifest and a source tree drawn   *)
(* from the forms below.                                                   *)
(***************************************************************************)
ModName == <<"mod", ".c">>
PhaseName == <<"a", ".c">>
CommonPath == <<"src/", "common/", "b", ".c">>
dsrtos_error_is_critical == <<"dsrtos_", "error_is_critical">>
DSRTOS_ERROR_HARDWARE == <<"DSRTOS_", "ERROR_", "HARDWARE">>
DSRTOS_ERROR_TIMEOUT == <<"DSRTOS_", "ERROR_", "TIMEOUT">>
DSRTOS_ERROR_HEAP_SIZE == <<"DSRTOS_", "ERROR_", "HEAP_SIZE">>
DSRTOS_MAX_TASKS == <<"DSRTOS_", "MAX_TASKS">>

\* the forms of the manifest's list declarations
Makefiles ==
    { TypicalMakefile,
      \* the fallback list only:  C_SOURCES = \
      << ListLine(C_SOURCES, "=", TRUE), SrcLine(MainPath), SrcLine(PhasePath) >>,
      \* the first source on the declaration's line:  C_SOURCES = src/main.c \
      << ListLine(C_SOURCES, "=", FALSE), SrcLine(MainPath), SrcLine(PhasePath) >>,
      \* a simply expanded list:  C_SOURCES := \
      << ListLine(C_SOURCES, ":=", TRUE), SrcLine(MainPath), SrcLine(PhasePath) >>,
      \* a second list whose name ends in C_SOURCES
      << ListLine(PHASE2_C_SOURCES, "=", TRUE), SrcLine(PhasePath),
         ListLine(C_SOURCES, "=", TRUE), SrcLine(MainPath) >>,
      \* the primary list appended to:  PHASE1_C_SOURCES += \
      << ListLine(C_SOURCES, "=", TRUE), SrcLine(MainPath),
         ListLine(PHASE1_C_SOURCES, "+=", TRUE), SrcLine(PhasePath) >> }

\* a tree in which one file includes the generated header already, one
\* names it in a comment only, and one does not name it
PreparedFiles ==
    (MainPath :> << Line("inc", AutoHeader), Line("inc", <<"stdint.h">>),
                    Line("ref", DSRTOS_ERROR_FATAL), Line("ref", DSRTOS_HEAP_SIZE) >>)
    @@ (PhasePath :> << Line("inc", <<"dsrtos.h">>), Line("cmt", AutoHeader),
                        Line("ref", DSRTOS_ERROR_TIMEOUT) >>)
    @@ (CommonPath :> << Line("inc", <<"dsrtos.h">>), Line("ref", DSRTOS_ERROR_HEAP_SIZE),
                         Line("ref", DSRTOS_MAX_TASKS) >>)

Trees == {TypicalFiles, PreparedFiles}

SourceNames == {ModName, StubsName, MainC, PhaseName}
StubSymbols == {dsrtos_memory_init, foo_unused, dsrtos_error_is_critical}
ConstantNames == {DSRTOS_HEAP_SIZE, DSRTOS_ERROR_FATAL, DSRTOS_ERROR_HARDWARE,
                  DSRTOS_ERROR_TIMEOUT, DSRTOS_ERROR_HEAP_SIZE, DSRTOS_MAX_TASKS}

\* the non-empty sets of at most MaxSubjects subjects
SubjectSets(S) == { T \in SUBSET S : T # {} /\ Cardinality(T) <= MaxSubjects }

\* a tree in which three files call helper in a condition, without a
\* declaration: one whose only include is its first line, and two with a
\* comment before the includes
ForwardFiles ==
    (PhasePath :> << Line("inc", <<"dsrtos.h">>), Line("use", helper) >>)
    @@ (MainPath :> << Line("cmt", <<"main">>), Line("inc", <<"stdint.h">>),
                       Line("inc", <<"dsrtos.h">>), Line("use", helper),
                       BodyLine("def", task_init, "zero") >>)
    @@ (CommonPath :> << Line("cmt", <<"b">>), Line("inc", <<"dsrtos.h">>),
                         Line("use", helper), Line("decl", task_init) >>)

\* a tree in which one file alone calls helper without a declaration, its
\* only include being its first line; the other file declares helper
FirstLineFiles ==
    (PhasePath :> << Line("inc", <<"dsrtos.h">>), Line("use", helper) >>)
    @@ (MainPath :> << Line("cmt", <<"main">>), Line("inc", <<"stdint.h">>),
                       Line("decl", helper), Line("use", helper) >>)

ForwardTrees == {TypicalFiles, ForwardFiles, FirstLineFiles}
ForwardSymbols == {helper, task_init}

\* the targets make may miss: one without a source, one whose source is in
\* src/phase1/, one whose source is src/main.c
MissingTargets == {ModObject, <<"build/", "a", ".o">>, <<"build/", "main", ".o">>}

\* the sequences listing, each once, the elements of a set of at most
\* MaxSubjects elements of S
SubjectLists(S) ==
    UNION { Orders(T) : T \in { U \in SUBSET S : Cardinality(U) <= MaxSubjects } }

\* a tree in which task_init is defined in the entry-point file and in a
\* module whose file name ends in main.c, src/phase1/domain.c
DomainPath == <<"src/", "phase1/", "do", "main", ".c">>
DomainFiles ==
    (MainPath :> << Line("inc", <<"dsrtos.h">>), BodyLine("def", task_init, "zero"),
                    Line("call", helper) >>)
    @@ (DomainPath :> << Line("inc", <<"dsrtos.h">>), BodyLine("def", task_init, "zero"),
                         BodyLine("def", helper, "zero") >>)

MultipleDefTrees == {TypicalFiles, DomainFiles}
MultipleDefSymbols == {task_init, helper}

\* a tree whose files define MAX_TASKS, a macro whose name starts with
\* MAX_TASKS, and another macro
MAX_TASKS_PER_CORE == <<"MAX_TASKS", "_PER_CORE">>
STACK_WORDS == <<"STACK_WORDS">>
MacroFiles ==
    (MainPath :> << Line("inc", <<"dsrtos.h">>), Line("define", MAX_TASKS),
                    Line("define", MAX_TASKS_PER_CORE), Line("define", STACK_WORDS),
                    Line("ref", MAX_TASKS) >>)
    @@ (PhasePath :> << Line("inc", <<"dsrtos.h">>), Line("define", STACK_WORDS),
                        Line("cmt", MAX_TASKS) >>)

MacroNames == {MAX_TASKS, STACK_WORDS}

Modes == {"ADD_SOURCE", "STUBS", "CONSTANTS", "MISSING_RULE", "FORWARD",
          "MULTIPLE_DEF", "MACROS"}

SynthInit ==
    /\ phase \in Modes
    /\ makefile \in (IF phase \in {"ADD_SOURCE", "STUBS", "MISSING_RULE"}
                     THEN Makefiles ELSE {TypicalMakefile})
    /\ files \in (CASE phase = "CONSTANTS" -> Trees
                     [] phase = "FORWARD" -> ForwardTrees
                     [] phase = "MULTIPLE_DEF" -> MultipleDefTrees
                     [] phase = "MACROS" -> {MacroFiles}
                     [] OTHER -> {TypicalFiles})
    /\ header = << >>
    /\ backup_created = FALSE
    /\ backups = << >>
    /\ iteration = 0
    /\ calls = 0
    /\ builds = 0
    /\ snapshots = 0
    /\ exports = 0
    /\ success = FALSE
    /\ tool = "none"
    /\ result = "none"
    /\ output = {}
    /\ fixes_applied = 0
    /\ ran = NoRun
    /\ pristine = TRUE
    /\ built = FALSE
    /\ exported = << >>
    /\ steps = 0
    /\ last = NoCall
    /\ prev = [last |-> NoCall, ps |-> Project]

LoopVars == <<backup_created, backups, phase, iteration, calls, builds, snapshots,
              exports, success, tool, result, output, fixes_applied, ran, pristine,
              built, exported>>

\* add_source_to_makefile(source_name)
CallAddSource(source_name) ==
    /\ phase = "ADD_SOURCE"
    /\ steps < MaxSteps
    /\ makefile' = AddSourceToMakefile(makefile, source_name)
    /\ steps' = steps + 1
    /\ last' = [op |-> "add_source_to_makefile", arg |-> source_name]
    /\ prev' = [last |-> last, ps |-> Project]
    /\ UNCHANGED <<files, header>>
    /\ UNCHANGED LoopVars

\* create_comprehensive_stubs(set(undefined_refs)), the set iterated in the
\* order symbols
CallStubs(symbols) ==
    /\ phase = "STUBS"
    /\ steps < MaxSteps
    /\ \E ps \in {CreateComprehensiveStubs(Project, symbols)} :
          /\ files' = ps.files
          /\ makefile' = ps.mk
    /\ steps' = steps + 1
    /\ last' = [op |-> "create_comprehensive_stubs", arg |-> symbols]
    /\ prev' = [last |-> last, ps |-> Project]
    /\ UNCHANGED header
    /\ UNCHANGED LoopVars

\* create_constants_file(set(constants))
CallConstants(constants) ==
    /\ phase = "CONSTANTS"
    /\ steps < MaxSteps
    /\ \E ps \in {CreateConstantsFile(Project, constants)} :
          /\ files' = ps.files
          /\ header' = ps.header
    /\ steps' = steps + 1
    /\ last' = [op |-> "create_constants_file", arg |-> constants]
    /\ prev' = [last |-> last, ps |-> Project]
    /\ UNCHANGED makefile
    /\ UNCHANGED LoopVars

\* fix_makefile_missing_rule(output), re.findall giving missing_files
CallMissingRule(missing_files) ==
    /\ phase = "MISSING_RULE"
    /\ steps < MaxSteps
    /\ \E ps \in {FixMakefileMissingRule(Project, missing_files)} :
          /\ files' = ps.files
          /\ makefile' = ps.mk
    /\ steps' = steps + 1
    /\ last' = [op |-> "fix_makefile_missing_rule", arg |-> missing_files]
    /\ prev' = [last |-> last, ps |-> Project]
    /\ UNCHANGED header
    /\ UNCHANGED LoopVars

\* fix_forward_declaration_errors(output): the sets of the matches of the
\* two patterns iterated in the orders here and first, and rglob giving the
\* files in some order c_files
CallForward(here, first) ==
    /\ phase = "FORWARD"
    /\ steps < MaxSteps
    /\ \E c_files \in Orders(Takers(files, ForwardSymbols)) :
          /\ files' = FixForwardDeclarationErrors(files, here, first, c_files)
          /\ last' = [op |-> "fix_forward_declaration_errors",
                      arg |-> [here |-> here, first |-> first, c_files |-> c_files]]
    /\ steps' = steps + 1
    /\ prev' = [last |-> last, ps |-> Project]
    /\ UNCHANGED <<makefile, header>>
    /\ UNCHANGED LoopVars

\* fix_multiple_definitions(output), set(multiple_defs) iterated in the
\* order symbols
CallMultipleDefs(symbols) ==
    /\ phase = "MULTIPLE_DEF"
    /\ steps < MaxSteps
    /\ files' = FixMultipleDefinitions(files, symbols)
    /\ steps' = steps + 1
    /\ last' = [op |-> "fix_multiple_definitions", arg |-> symbols]
    /\ prev' = [last |-> last, ps |-> Project]
    /\ UNCHANGED <<makefile, header>>
    /\ UNCHANGED LoopVars

\* remove_duplicate_macros(set(redefined))
CallMacros(macros) ==
    /\ phase = "MACROS"
    /\ steps < MaxSteps
    /\ files' = RemoveDuplicateMacros(files, macros)
    /\ steps' = steps + 1
    /\ last' = [op |-> "remove_duplicate_macros", arg |-> macros]
    /\ prev' = [last |-> last, ps |-> Project]
    /\ UNCHANGED <<makefile, header>>
    /\ UNCHANGED LoopVars

SynthNext ==
    \/ \E symbols \in SubjectLists(MultipleDefSymbols) \ {<< >>} : CallMultipleDefs(symbols)
    \/ \E macros \in SubjectSets(MacroNames) : CallMacros(macros)
    \/ \E missing_files \in SubjectLists(MissingTargets) \ {<< >>} :
          CallMissingRule(missing_files)
    \/ \E here \in SubjectLists(ForwardSymbols) : \E first \in SubjectLists({helper}) :
          CallForward(here, first)
    \/ \E source_name \in SourceNames : CallAddSource(source_name)
    \/ \E S \in SubjectSets(StubSymbols) : \E symbols \in Orders(S) : CallStubs(symbols)
    \/ \E constants \in SubjectSets(ConstantNames) : CallConstants(constants)

SynthSpec == SynthInit /\ [][SynthNext]_vars

(***************************************************************************)
(* The loop under the scheduling of section 5: single-threaded and         *)
(* synchronous, every build invocation returns and the round completes.    *)
(***************************************************************************)
Round ==
    \/ RoundSucceeds
    \/ \E out \in Outputs : RoundFails(out)
    \/ \E at \in {"clean", "make"} : RoundToolFails(at)

FairSpec == Spec /\ WF_vars(Round)

(***************************************************************************)
(* What the formulas below speak of.                                       *)
(***************************************************************************)
\* a call of run_dynamic_fix has begun (and may have returned)
InCall == phase \in {"RUNNING"} \cup Terminal
\* the latest round of the current call failed: output, fixes_applied and
\* ran are that round's
RoundFailed == InCall /\ builds > 0 /\ ~success
\* a step that is a round whose build failed
FailingStep == phase = "RUNNING" /\ builds' = builds + 1 /\ ~success'
\* a step that is a round whose build succeeded
SucceedingStep == phase = "RUNNING" /\ builds' = builds + 1 /\ success'
\* a step that begins a call of run_dynamic_fix
CallStep == calls' = calls + 1

\* the diagnostics of section 4.1 that the output holds: the kinds for which
\* the kind's extraction rule yields a subject
Diagnosed(out) ==
    { k \in Kinds :
        CASE k = "missing_rule" -> MissingFiles(out) # {}
          [] k = "forward_decl" -> HereSymbols(out) # {}
          [] k = "multiple_def" -> MultipleDefs(out) # {}
          [] k = "undefined_ref" -> UndefinedRefs(out) # {}
          [] k = "constants" -> Constants(out) # {}
          [] k = "macros" -> RedefinedMacros(out) # {} }

(***************************************************************************)
(* C1. run_dynamic_fix terminates: at most 7 rounds and at most 7 builds   *)
(* in a call, and every call that has begun returns, with a boolean.       *)
(***************************************************************************)
C1_Bounded ==
    /\ iteration <= 7
    /\ builds <= 7
    /\ phase = "RUNNING" => (iteration = builds + 1 /\ result = "none")
    /\ phase \in Terminal => (builds = iteration /\ result \in {"True", "False"})

C1_Terminates == []C1_Bounded /\ ((phase = "RUNNING") ~> (phase \in Terminal))

\* a call used all seven rounds
C1_Witness == phase = "EXHAUSTED" /\ builds = 7 /\ iteration = 7 /\ result = "False"

(***************************************************************************)
(* C2. If the build of round 1 succeeds, the call ends SUCCEEDED in round  *)
(* 1 with True, no synthesizer has run, and the source tree, the generated *)
(* header and the manifest are as they were when the call began.           *)
(***************************************************************************)
C2_FirstRoundSuccess ==
    (InCall /\ builds = 1 /\ success) =>
        /\ phase = "SUCCEEDED"
        /\ iteration = 1
        /\ result = "True"
        /\ ran = NoRun
        /\ fixes_applied = 0
        /\ pristine

\* a second call, on a tree the first call has changed, succeeds at once
C2_Witness ==
    /\ phase = "SUCCEEDED" /\ builds = 1 /\ success /\ calls = 2
    /\ SourcePath(StubsName) \in DOMAIN files

(***************************************************************************)
(* C3 (as claimed). A failed round whose output holds no diagnostic of any *)
(* of the six kinds has fix counter zero, runs no synthesizer and ends in  *)
(* STUCK with False.                                                       *)
(***************************************************************************)
C3_NoDiagnosticMeansStuck ==
    (RoundFailed /\ Diagnosed(output) = {}) =>
        /\ fixes_applied = 0
        /\ ran = NoRun
        /\ phase = "STUCK"
        /\ result = "False"

(***************************************************************************)
(* C5 (as claimed). In a failed round whose output holds diagnostics of k  *)
(* kinds, exactly those k synthesizers run, once each, and the fix counter *)
(* is k; the counter is between 0 and 6.                                   *)
(***************************************************************************)
C5_CounterIsKindCount ==
    RoundFailed =>
        /\ \A k \in Kinds : ran[k] = (IF k \in Diagnosed(output) THEN 1 ELSE 0)
        /\ fixes_applied = Cardinality(Diagnosed(output))
        /\ fixes_applied \in 0..6

(***************************************************************************)
(* C8. The loop follows the state machine: a call starts in RUNNING(1); a  *)
(* failing round i < 7 with a non-zero fix counter leads to RUNNING(i+1);  *)
(* a failing round 7 with a non-zero fix counter leads to EXHAUSTED with   *)
(* False, and there is no 8th build; a failing round with a zero counter   *)
(* leads to STUCK; from SUCCEEDED, STUCK and EXHAUSTED nothing happens but *)
(* a new call, which builds nothing and changes nothing in the project.    *)
(***************************************************************************)
C8_Step ==
    /\ CallStep => (phase' = "RUNNING" /\ iteration' = 1 /\ builds' = 0)
    /\ (FailingStep /\ fixes_applied' # 0 /\ iteration < 7) =>
           (phase' = "RUNNING" /\ iteration' = iteration + 1 /\ result' = "none")
    /\ (FailingStep /\ fixes_applied' # 0 /\ iteration = 7) =>
           (phase' = "EXHAUSTED" /\ result' = "False" /\ builds' = 7)
    /\ (FailingStep /\ fixes_applied' = 0) => (phase' = "STUCK" /\ result' = "False")
    /\ SucceedingStep => (phase' = "SUCCEEDED" /\ result' = "True")
    /\ phase \in Terminal =>
           (CallStep /\ files' = files /\ makefile' = makefile /\ header' = header)

C8_StateMachine == [][C8_Step]_vars /\ [](builds <= 7)

\* the seventh round failed with fixes applied
C8_Witness == phase = "EXHAUSTED" /\ fixes_applied > 0 /\ builds = 7

(***************************************************************************)
(* C9. A call returns True exactly when a build of it succeeded; the       *)
(* export runs once in such a call, in the step of the successful build,   *)
(* after which no synthesizer runs; it does not run in a call that returns *)
(* False.                                                                  *)
(***************************************************************************)
C9_State ==
    /\ result = "True" <=> (InCall /\ builds > 0 /\ success)
    /\ result = "True" => (exports = 1 /\ phase = "SUCCEEDED")
    /\ result # "True" => exports = 0

C9_Step ==
    /\ (exports' # exports /\ ~CallStep) => (SucceedingStep /\ exports' = exports + 1)
    /\ exports > 0 => (CallStep /\ files' = files /\ makefile' = makefile /\ header' = header)

C9_TrueIffBuildSucceeded == []C9_State /\ [][C9_Step]_vars

\* a build succeeded after rounds that ran synthesizers
C9_Witness == result = "True" /\ exports = 1 /\ builds > 2 /\ ~pristine

(***************************************************************************)
(* C10 (as claimed). Every call of run_dynamic_fix, a second call on the   *)
(* same fixer object included, takes exactly one snapshot.                 *)
(***************************************************************************)
C10_SnapshotEveryCall == InCall => snapshots = 1

(***************************************************************************)
(* C10 (amended). A fixer object takes exactly one snapshot, in its first  *)
(* call of run_dynamic_fix, before the first build and before any          *)
(* synthesizer has written; later calls on the object take none.  No step  *)
(* restores it: the project changes only in the fixes of a failed round.   *)
(***************************************************************************)
C10_State ==
    /\ calls = 0 => (backups = << >> /\ ~backup_created)
    /\ calls >= 1 => (Len(backups) = 1 /\ backup_created)
    /\ (InCall /\ calls = 1) => snapshots = 1
    /\ (InCall /\ calls > 1) => snapshots = 0

C10_Step ==
    /\ backups' # backups =>
          /\ CallStep /\ calls = 0 /\ builds' = 0
          /\ backups' = <<Project>>
          /\ files' = files /\ makefile' = makefile /\ header' = header
    /\ (files' # files \/ makefile' # makefile \/ header' # header) =>
          (FailingStep /\ fixes_applied' > 0)

C10_OneSnapshotPerFixer == []C10_State /\ [][C10_Step]_vars

\* a second call on the same object has run rounds without a snapshot of
\* its own, on a project that differs from the one snapshot
C10_Witness ==
    /\ calls = 2 /\ builds > 0 /\ snapshots = 0
    /\ Len(backups) = 1 /\ backups[1] # Project

(***************************************************************************)
(* C4 (as claimed). After add_source_to_makefile(source name) has been     *)
(* called, once or several times, on any manifest, the manifest holds      *)
(* exactly one reference to src/<source name>.                             *)
(***************************************************************************)
C4_ExactlyOneReference ==
    (phase = "ADD_SOURCE" /\ steps >= 1) =>
        RefCount(makefile, SourcePath(last.arg)) = 1

(***************************************************************************)
(* C6 (as claimed). After stub synthesis, in one round or in several, a    *)
(* symbol whose name contains memory_init has a body returning zero, a     *)
(* symbol that is none of the known primitives has the generic             *)
(* zero-returning body, and src/dsrtos_stubs.c is referenced in the        *)
(* manifest exactly once.                                                  *)
(***************************************************************************)
StubOf(symbol) ==
    { l \in { files[SourcePath(StubsName)][i] :
                  i \in 1..Len(files[SourcePath(StubsName)]) } : l.x = symbol }

C6_StubsRegisteredOnce ==
    (phase = "STUBS" /\ steps >= 1) =>
        /\ SourcePath(StubsName) \in DOMAIN files
        /\ StubOf(dsrtos_memory_init) \subseteq {BodyLine("stub", dsrtos_memory_init, "zero")}
        /\ StubOf(foo_unused) \subseteq {BodyLine("stub", foo_unused, "zero")}
        /\ \A i \in 1..Len(last.arg) : StubOf(last.arg[i]) # {}
        /\ RefCount(makefile, SourcePath(StubsName)) = 1

(***************************************************************************)
(* C7 (as claimed). After constants synthesis, in one round or in several, *)
(* the generated header gives 32768 to a name containing HEAP_SIZE, the    *)
(* fatal sentinel 0x1000000A to a name containing ERROR_FATAL, sentinels   *)
(* distinct from it and from each other to hardware and to other ERROR_    *)
(* names, and zero to every other name; and every source file that         *)
(* references one of the constants holds exactly one include of the        *)
(* generated header.                                                       *)
(***************************************************************************)
IncludeCount(content) ==
    Cardinality({ i \in 1..Len(content) :
                    content[i].t = "inc" /\ content[i].x = AutoHeader })

References(content, const) ==
    \E i \in 1..Len(content) : content[i].t = "ref" /\ content[i].x = const

C7_ValuesAndOneInclude ==
    (phase = "CONSTANTS" /\ steps >= 1) =>
        /\ DOMAIN header = last.arg
        /\ \A c \in DOMAIN header :
              IF Within(<<"HEAP_SIZE">>, c) THEN header[c] = "32768U"
              ELSE IF Within(<<"ERROR_", "FATAL">>, c) THEN header[c] = "0x1000000AU"
              ELSE IF Within(<<"ERROR_", "HARDWARE">>, c)
                   THEN header[c] \notin {"32768U", "0x1000000AU", "0x10000001U", "0U"}
              ELSE IF Within(<<"ERROR_">>, c) THEN header[c] = "0x10000001U"
              ELSE header[c] = "0U"
        /\ \A f \in CFiles(files) :
              (\E c \in last.arg : References(files[f], c)) => IncludeCount(files[f]) = 1

(***************************************************************************)
(* C11. A failure to invoke the build tool, in the clean call or in the    *)
(* build call, does not leave the build driver: the driver returns         *)
(* non-success with the failure's description as output, and the round     *)
(* goes on exactly as the round of a failed build with that output does,   *)
(* to STUCK, EXHAUSTED or the next round.                                  *)
(***************************************************************************)
\* a step that is a round in which a subprocess.run call raised
ToolFailStep == phase = "RUNNING" /\ builds' = builds + 1 /\ tool' \in {"clean", "make"}

C11_State ==
    tool \in {"clean", "make"} =>
        /\ ~success
        /\ output \in ExceptionTexts
        /\ exports = 0
        /\ result # "True"
        /\ phase \in {"RUNNING", "STUCK", "EXHAUSTED"}

C11_Step ==
    ToolFailStep =>
        /\ FailedRound([success |-> FALSE, output |-> output'])
        /\ phase' = AfterFailedRound(iteration, Count(Triggered(output')))

C11_ToolFailureIsFailedBuild == []C11_State /\ [][C11_Step]_vars

\* make could not be started in a round after rounds that applied fixes
C11_Witness ==
    /\ tool = "make" /\ builds > 1 /\ ~pristine
    /\ phase = "STUCK" /\ result = "False"

(***************************************************************************)
(* C12 (as claimed). In every failed round, for each of the six kinds, the *)
(* kind's synthesizer runs, and the fix counter counts it, if and only if  *)
(* a subject of that kind is extracted from the round's output; a round    *)
(* from whose output no subject is extracted has fix counter zero.         *)
(***************************************************************************)
C12_RunsIffSubjectExtracted ==
    RoundFailed =>
        /\ \A k \in Kinds : (ran[k] > 0) <=> (k \in Diagnosed(output))
        /\ \A k \in Kinds : Triggered(output)[k] <=> (k \in Diagnosed(output))
        /\ Diagnosed(output) = {} => fixes_applied = 0

(***************************************************************************)
(* C13. On a terminal failure the project is as the last synthesizer       *)
(* mutation left it: the round that ends in STUCK writes nothing to the    *)
(* source tree, the generated header or the manifest, the round that ends  *)
(* in EXHAUSTED leaves what its fixes wrote, and nothing is rolled back or *)
(* restored then or later.                                                 *)
(***************************************************************************)
ProjectUnchanged == files' = files /\ makefile' = makefile /\ header' = header

C13_State ==
    (phase \in {"STUCK", "EXHAUSTED"} /\ ~pristine /\ calls = 1) => Project # backups[1]

C13_Step ==
    /\ (FailingStep /\ phase' = "STUCK") => ProjectUnchanged
    /\ (FailingStep /\ phase' = "EXHAUSTED") =>
           \E ps \in ApplyFixes(Project, output') :
               files' = ps.files /\ makefile' = ps.mk /\ header' = ps.header
    /\ phase \in {"STUCK", "EXHAUSTED"} => ProjectUnchanged

C13_NoRollback == []C13_State /\ [][C13_Step]_vars

\* a call ended in STUCK after earlier rounds had changed the project
C13_Witness ==
    /\ phase = "STUCK" /\ builds > 1 /\ ~pristine /\ calls = 1
    /\ SourcePath(StubsName) \in DOMAIN files

(***************************************************************************)
(* C14 (as claimed). Applying the missing-build-rule, the                  *)
(* forward-declaration, the stub or the constants synthesizer a second     *)
(* time, with the same diagnostics, to the state its first application     *)
(* left, leaves the source tree and the manifest unchanged.                *)
(***************************************************************************)
\* the diagnostics a synthesizer call was made with
DiagnosticsOf(call) ==
    IF call.op = "fix_forward_declaration_errors"
    THEN <<call.arg.here, call.arg.first>>
    ELSE <<call.arg>>

\* the latest call repeated the call before it
Repeated ==
    /\ steps >= 2
    /\ last.op = prev.last.op
    /\ DiagnosticsOf(last) = DiagnosticsOf(prev.last)

C14_RerunChangesNothing ==
    (phase \in {"MISSING_RULE", "FORWARD", "STUBS", "CONSTANTS"} /\ Repeated) =>
        files = prev.ps.files /\ makefile = prev.ps.mk

(***************************************************************************)
(* C15 (as claimed). After fix_makefile_missing_rule has handled a missing *)
(* target, the manifest references the source path derived from the        *)
(* target, and a path it had to insert stands under the PHASE1_C_SOURCES   *)
(* list if the manifest declares that list and under the C_SOURCES list    *)
(* otherwise, whatever the form of the manifest's list declarations.       *)
(***************************************************************************)
\* the source path derived from a missing target
DerivedPath(target) == SourcePath(ReplaceToken(PathName(target), ".o", ".c"))

\* the label of the list declaration that line i of the manifest stands under
ListOf(mk, i) ==
    LET S == { j \in 1..i : mk[j].t = "list" } IN
    IF S = {} THEN << >> ELSE mk[CHOOSE j \in S : \A k \in S : k <= j].x

\* the manifest declares the list label
Declares(mk, label) == \E i \in 1..Len(mk) : mk[i].t = "list" /\ mk[i].x = label

C15_TargetReferenced ==
    (phase = "MISSING_RULE" /\ steps >= 1) =>
        \A n \in 1..Len(last.arg) :
            LET path == DerivedPath(last.arg[n])
                label == IF Declares(prev.ps.mk, PHASE1_C_SOURCES)
                         THEN PHASE1_C_SOURCES ELSE C_SOURCES
            IN  /\ RefCount(makefile, path) >= 1
                /\ RefCount(prev.ps.mk, path) = 0 =>
                      \E i \in 1..Len(makefile) :
                          /\ makefile[i].t = "src" /\ makefile[i].x = path
                          /\ ListOf(makefile, i) = label

(***************************************************************************)
(* C16 (as claimed). In one round of forward-declaration insertion, for    *)
(* every undeclared symbol at most one source file receives a forward      *)
(* declaration, and it is the first file found that has a call site of the *)
(* symbol and no declaration line for it; also when both undeclared        *)
(* patterns report the symbol in the same output.                          *)
(***************************************************************************)
\* the forward declarations of symbol in a file
ForwardCount(content, symbol) ==
    Cardinality({ i \in 1..Len(content) : content[i] = Line("fwd", symbol) })

\* the files that received a forward declaration of symbol in the latest call
Received(symbol) ==
    { f \in DOMAIN files :
        ForwardCount(files[f], symbol) > ForwardCount(prev.ps.files[f], symbol) }

\* the symbols the latest call of fix_forward_declaration_errors was about
Undeclared ==
    { last.arg.here[i] : i \in 1..Len(last.arg.here) } \cup
    { last.arg.first[i] : i \in 1..Len(last.arg.first) }

\* the files of c_files that had a call site and no declaration line
Candidates(symbol) ==
    { n \in 1..Len(last.arg.c_files) :
        /\ HasCallSite(prev.ps.files[last.arg.c_files[n]], symbol)
        /\ ~HasDeclarationLine(prev.ps.files[last.arg.c_files[n]], symbol) }

C16_OneFilePerSymbol ==
    (phase = "FORWARD" /\ steps >= 1) =>
        \A symbol \in Undeclared :
            /\ Cardinality(Received(symbol)) <= 1
            /\ \A f \in Received(symbol) :
                  /\ Candidates(symbol) # {}
                  /\ f = last.arg.c_files[CHOOSE n \in Candidates(symbol) :
                                              \A m \in Candidates(symbol) : n <= m]

(***************************************************************************)
(* C17 (as claimed). For an undeclared symbol, a source file that has a    *)
(* call site of the symbol, no declaration line for it and at least one    *)
(* include directive, wherever in the file and also at its very first      *)
(* character, gets the forward declaration right after its last include    *)
(* directive.  (Stated for a file that is the only one with a call site    *)
(* and no declaration line, so that no other file is found before it.)     *)
(***************************************************************************)
\* the file had a call site of symbol and no declaration line for it
WantsDeclaration(content, symbol) ==
    HasCallSite(content, symbol) /\ ~HasDeclarationLine(content, symbol)

\* the forward declaration of symbol stands after the last include, nothing
\* but other forward declarations between them
DeclaredAfterIncludes(content, symbol) ==
    \E i \in 1..Len(content) :
        /\ content[i] = Line("fwd", symbol)
        /\ i > LastInclude(content)
        /\ \A j \in (LastInclude(content) + 1)..i : content[j].t = "fwd"

C17_InsertedAfterLastInclude ==
    (phase = "FORWARD" /\ steps >= 1) =>
        \A symbol \in Undeclared : \A f \in CFiles(prev.ps.files) :
            ( /\ WantsDeclaration(prev.ps.files[f], symbol)
              /\ LastInclude(prev.ps.files[f]) >= 1
              /\ \A g \in CFiles(prev.ps.files) \ {f} :
                     ~WantsDeclaration(prev.ps.files[g], symbol) )
            => DeclaredAfterIncludes(files[f], symbol)


(***************************************************************************)
(* C18: duplicate removal keeps a definition and touches only main.c.      *)
(***************************************************************************)
\* the file holds a definition block of the symbol
Defines(content, symbol) ==
    \E i \in 1..Len(content) : content[i].t = "def" /\ content[i].x = symbol

Definers(tree, symbol) == { f \in CFiles(tree) : Defines(tree[f], symbol) }

\* C18: after the multiple-definition synthesizer has run for a symbol that
\* two or more files defined, at least one file still defines the symbol, and
\* no file other than src/main.c has been modified.
C18_KeptElsewhere ==
    (phase = "MULTIPLE_DEF" /\ steps >= 1) =>
        \A i \in 1..Len(last.arg) :
            Cardinality(Definers(prev.ps.files, last.arg[i])) >= 2 =>
                /\ Definers(files, last.arg[i]) # {}
                /\ \A f \in DOMAIN files \ {MainPath} : files[f] = prev.ps.files[f]

(***************************************************************************)
(* C19: duplicate-macro removal deletes the reported definitions only.     *)
(***************************************************************************)
\* the line is the definition line of one of the macros
DefinitionLineOf(line, macros) == line.t = "define" /\ line.x \in macros

\* C19: after the duplicate-macro synthesizer has run, in every source file
\* the definition lines of the reported macro names are gone and every other
\* line, the definition lines of macros whose name merely starts with a
\* reported name included, is as it was; the manifest is as it was.
C19_ExactlyReportedMacros ==
    (phase = "MACROS" /\ steps >= 1) =>
        /\ makefile = prev.ps.mk
        /\ DOMAIN files = DOMAIN prev.ps.files
        /\ \A f \in DOMAIN files :
              /\ Len(files[f]) = Len(prev.ps.files[f])
              /\ \A i \in 1..Len(files[f]) :
                    files[f][i] = IF f \in CFiles(prev.ps.files)
                                     /\ DefinitionLineOf(prev.ps.files[f][i], last.arg)
                                  THEN Line("blank", << >>)
                                  ELSE prev.ps.files[f][i]

(***************************************************************************)
(* C20: the stub file holds the stubs of the latest round only.            *)
(***************************************************************************)
\* the lines of the stub file that are the stub of the symbol
StubsOf(tree, symbol) ==
    IF SourcePath(StubsName) \notin DOMAIN tree THEN {}
    ELSE { i \in 1..Len(tree[SourcePath(StubsName)]) :
             /\ tree[SourcePath(StubsName)][i].t \in {"stub", "var"}
             /\ tree[SourcePath(StubsName)][i].x = symbol }

SymbolsOf(symbols) == { symbols[i] : i \in 1..Len(symbols) }

\* C20: after stub synthesis the stub file holds exactly one stub for each
\* symbol of the set it was called with and no stub for any other symbol: a
\* stub written by an earlier call for a symbol that this call does not name
\* is gone.
C20_StubsOfThisRoundOnly ==
    (phase = "STUBS" /\ steps >= 1) =>
        /\ SourcePath(StubsName) \in DOMAIN files
        /\ \A symbol \in StubSymbols :
              Cardinality(StubsOf(files, symbol)) =
                  IF symbol \in SymbolsOf(last.arg) THEN 1 ELSE 0
        /\ \A i \in 1..Len(files[SourcePath(StubsName)]) :
              files[SourcePath(StubsName)][i].t \in {"stub", "var"} =>
                  files[SourcePath(StubsName)][i].x \in SymbolsOf(last.arg)

\* a second call that does not name a symbol the first call wrote a stub for
C20_Witness ==
    /\ phase = "STUBS"
    /\ steps = 2
    /\ \E symbol \in SymbolsOf(prev.last.arg) \ SymbolsOf(last.arg) :
          /\ StubsOf(prev.ps.files, symbol) # {}
          /\ StubsOf(files, symbol) = {}
    /\ \E symbol \in SymbolsOf(last.arg) : StubsOf(files, symbol) # {}

(***************************************************************************)
(* C21: every source path the missing-rule synthesizer adds names a file.  *)
(***************************************************************************)
\* the source paths the manifest names
SourcePaths(mk) == { mk[i].x : i \in { j \in 1..Len(mk) : mk[j].t = "src" } }

\* C21: every source path that the missing-build-rule synthesizer has added
\* to the manifest names a file that exists in the source tree at the end of
\* that call, whether the source was found under src/, src/phase1/,
\* src/phase2/ or src/common/ or was generated as a placeholder.
C21_AddedPathExists ==
    (phase = "MISSING_RULE" /\ steps >= 1) =>
        \A path \in SourcePaths(makefile) \ SourcePaths(prev.ps.mk) :
            path \in DOMAIN files


(***************************************************************************)
(* C22: the order of build, synthesizers and export in a round.            *)
(***************************************************************************)
\* C22 as stated: in every run that returns True the last action on the
\* project is a build, so the exported project is the project that was
\* built; in every run that ends EXHAUSTED the synthesizers of round 7 ran
\* after the 7th and last build, so the final project is not the project
\* that was built.
C22_FinalStateNeverBuilt ==
    /\ result = "True" => (built /\ exported = <<Project>>)
    /\ phase = "EXHAUSTED" =>
          (builds = MaxIterations /\ fixes_applied > 0 /\ ~built)

\* the build of a round compiles the project as the round found it: when
\* the round ends the run, the project is as built exactly if the rest of
\* the round has left it alone; a successful round leaves it alone and
\* exports it, and an ended run changes nothing
C22_Step ==
    /\ ((FailingStep \/ SucceedingStep) /\ phase' \in Terminal) =>
            (built' <=> (Project' = Project))
    /\ SucceedingStep => (Project' = Project /\ exported' = <<Project>>)
    /\ (phase \in Terminal /\ ~CallStep) => (Project' = Project /\ built' = built)

\* C22: in every run that returns True the last action on the project is a
\* build, so the exported project is the project that was built; in every
\* run that ends EXHAUSTED the synthesizers of round 7 ran after the 7th and
\* last build and no build follows them, so the project last built is the
\* project as it was before them: the final project differs from it exactly
\* when those synthesizers changed something.
C22_State ==
    /\ result = "True" => (built /\ exported = <<Project>>)
    /\ phase = "EXHAUSTED" => (builds = MaxIterations /\ fixes_applied > 0)

C22_BuildThenFixes == []C22_State /\ [][C22_Step]_vars

\* an exhausted run whose seventh round changed the project after its build
C22_Witness ==
    /\ phase = "EXHAUSTED"
    /\ builds = MaxIterations
    /\ ~built
    /\ ~pristine
=============================================================================
